---- MODULE Spec2Model ----
(***************************************************************************)
(* Access-level resolution of posthog/rbac/user_access_control.py.         *)
(*                                                                         *)
(* One UserAccessControl instance, built for the user SelfUser and the     *)
(* team SelfTeam, answers calls against a store of organization            *)
(* membership, organization features, role memberships and AccessControl   *)
(* rows.  Python's None is the string "None", a raised ValueError is the   *)
(* result tag "ValueError".                                                *)
(*                                                                         *)
(* Actors-query date window of                                             *)
(* posthog/hogql_queries/insights/trends/trends_actors_query_builder.py.   *)
(* One TrendsActorsQueryBuilder whose _date_where_expr is called directly  *)
(* and through build_actors_query.  Datetimes are whole hours since an     *)
(* epoch, a time_frame string is the day and hour it spells.               *)
(***************************************************************************)
EXTENDS Integers, Sequences, FiniteSets, TLC

VARIABLES
    available_features,   \* features available to self._organization
    organization_memberships, \* stored OrganizationMembership rows of self._organization
    role_memberships,     \* roles SelfUser holds (self._user.role_memberships)
    access_controls,      \* stored AccessControl rows
    cached_membership,    \* cached_property slot of _organization_membership
    ret,                  \* the last call on the instance and what it returned
    changed,              \* history: the parts of the store written since that call
    time_frame,           \* TrendsActorsQueryBuilder.time_frame
    compare_value,        \* TrendsActorsQueryBuilder.compare_value
    trends_query,         \* what the builder reads of trends_query (dateRange, interval)
    date_conditions,      \* history: the window of every _date_where_expr call so far
    built                 \* the last call on the builder and what it produced

vars == <<available_features, organization_memberships, role_memberships, access_controls,
          cached_membership, ret, changed,
          time_frame, compare_value, trends_query, date_conditions, built>>

builder == <<time_frame, compare_value, trends_query, date_conditions, built>>

store == <<available_features, organization_memberships, role_memberships, access_controls>>

(***************************************************************************)
(* Bounds                                                                  *)
(***************************************************************************)
\* rows in the store of Spec
MaxGrants == 2
\* rows in the store of SpecCache
MaxCacheGrants == 1
\* days a builder's time_frame is drawn from: 0..MaxDay
MaxDay == 2
\* days in the previous-period delta: 0..MaxDeltaDays
MaxDeltaDays == 2
\* _date_where_expr calls on one builder
MaxCalls == 4

(***************************************************************************)
(* Values                                                                  *)
(***************************************************************************)
None == "None"

SelfUser == "u1"
OtherUser == "u2"
SelfTeam == 1
OtherTeam == 2

PROJECT_BASED_PERMISSIONING == "project_based_permissioning"
ADVANCED_PERMISSIONS == "advanced_permissions"
ROLE_BASED_ACCESS == "role_based_access"
Features == {PROJECT_BASED_PERMISSIONING, ADVANCED_PERMISSIONS, ROLE_BASED_ACCESS}

LevelMEMBER == 1
LevelADMIN == 8
LevelOWNER == 15
MembershipLevels == {LevelMEMBER, LevelADMIN, LevelOWNER}

Roles == {"r1", "r2"}

MEMBER_BASED_ACCESS_LEVELS == <<"none", "member", "admin">>
RESOURCE_BASED_ACCESS_LEVELS == <<"viewer", "editor">>

API_SCOPE_OBJECTS == {"dashboard", "feature_flag", "notebook", "organization", "project"}

\* the objects callers pass: class name, primary key, creator
Obj(cls, id, created_by) == [cls |-> cls, id |-> id, created_by |-> created_by]
TheTeam == Obj("Team", SelfTeam, None)
Objects ==
    { TheTeam,
      Obj("Organization", 1, None),
      Obj("Dashboard", 1, SelfUser),
      Obj("Dashboard", 2, OtherUser),
      Obj("FeatureFlag", 1, OtherUser),
      Obj("Role", 1, SelfUser) }

\* model.__class__.__name__.lower()
Lower(cls) ==
    CASE cls = "Team" -> "team"
      [] cls = "Organization" -> "organization"
      [] cls = "Dashboard" -> "dashboard"
      [] cls = "FeatureFlag" -> "featureflag"
      [] cls = "Role" -> "role"

\* str(obj.id)
Str(id) ==
    CASE id = 1 -> "1"
      [] id = 2 -> "2"

(***************************************************************************)
(* Module-level functions                                                  *)
(***************************************************************************)
ordered_access_levels(resource) ==
    IF resource \in {"project", "organization"}
    THEN MEMBER_BASED_ACCESS_LEVELS
    ELSE RESOURCE_BASED_ACCESS_LEVELS

\* default_access_level without its project/organization branch
default_access_level_editor(resource) == "editor"

default_access_level(resource) ==
    IF resource \in {"project", "organization"} THEN "member" ELSE "editor"

\* model_to_resource without the API_SCOPE_OBJECTS test
model_to_resource_unchecked(model) ==
    LET name == Lower(model.cls)
    IN  IF name = "team" THEN "project"
        ELSE IF name = "featureflag" THEN "feature_flag"
        ELSE name

model_to_resource(model) ==
    LET name == Lower(model.cls)
    IN  IF name = "team" THEN "project"
        ELSE IF name = "featureflag" THEN "feature_flag"
        ELSE IF name \notin API_SCOPE_OBJECTS THEN "ValueError"
        ELSE name

\* list.index(x): position of the first x, counted from 0; -1 stands for the
\* ValueError list.index raises when x is not in the list
index(levels, x) ==
    IF \E i \in 1..Len(levels) : levels[i] = x
    THEN (CHOOSE i \in 1..Len(levels) :
              levels[i] = x /\ \A j \in 1..(i - 1) : levels[j] # x) - 1
    ELSE -1

AllLevels == {"none", "member", "admin", "viewer", "editor"}

\* AccessControl rows and instances; pk is None for an instance never saved
AC(pk, team, resource, resource_id, organization_member, role, access_level) ==
    [pk |-> pk, team |-> team, resource |-> resource, resource_id |-> resource_id,
     organization_member |-> organization_member, role |-> role,
     access_level |-> access_level]

NullAC == AC(None, 0, None, None, None, None, None)

\* what a call hands back: None, a raised ValueError, an AccessControl, a bool
RetNone == [tag |-> "None", access_control |-> NullAC, bool |-> FALSE]
RetError == [tag |-> "ValueError", access_control |-> NullAC, bool |-> FALSE]
RetAC(ac) == [tag |-> "AccessControl", access_control |-> ac, bool |-> FALSE]
RetBool(b) == [tag |-> "bool", access_control |-> NullAC, bool |-> b]

\* access_level_satisfied comparing with > in place of >=
access_level_satisfied_strict(obj, current_level, required_level) ==
    LET resource == model_to_resource(obj)
        levels == ordered_access_levels(resource)
    IN  IF resource = "ValueError" THEN RetError
        ELSE IF index(levels, current_level) = -1 THEN RetError
        ELSE IF index(levels, required_level) = -1 THEN RetError
        ELSE RetBool(index(levels, current_level) > index(levels, required_level))

access_level_satisfied(obj, current_level, required_level) ==
    LET resource == model_to_resource(obj)
        levels == ordered_access_levels(resource)
    IN  IF resource = "ValueError" THEN RetError
        ELSE IF index(levels, current_level) = -1 THEN RetError
        ELSE IF index(levels, required_level) = -1 THEN RetError
        ELSE RetBool(index(levels, current_level) >= index(levels, required_level))

(***************************************************************************)
(* The store                                                               *)
(***************************************************************************)
\* OrganizationMembership rows; NoMembership is the None the lookup returns
Membership(user, level) == [user |-> user, level |-> level]
NoMembership == Membership(None, 0)

\* The AccessControl rows the store may hold.  access_level is a level of the
\* resource's ordering; organization_member and role are never both set.
Row(team, resource, resource_id, organization_member, role, access_level) ==
    AC("db", team, resource, resource_id, organization_member, role, access_level)

\* rows on dashboard 1 of the instance's team: team-wide, SelfUser's, role r1's
DashboardGrants ==
    { Row(SelfTeam, "dashboard", "1", s[1], s[2], l) :
        s \in {<<None, None>>, <<SelfUser, None>>, <<None, "r1">>},
        l \in {"viewer", "editor"} }

\* rows on the instance's team as a project: team-wide and SelfUser's
ProjectGrants ==
    { Row(SelfTeam, "project", "1", s[1], s[2], l) :
        s \in {<<None, None>>, <<SelfUser, None>>},
        l \in {"none", "admin"} }

\* rows that differ from a team-wide viewer row on dashboard 1 in one field
\* (the project rows differ from it in the resource)
OtherGrants ==
    { Row(OtherTeam, "dashboard", "1", None, None, "viewer"),
      Row(SelfTeam, "dashboard", "2", None, None, "viewer"),
      Row(SelfTeam, "dashboard", None, None, None, "viewer"),
      Row(SelfTeam, "dashboard", "1", OtherUser, None, "viewer"),
      Row(SelfTeam, "dashboard", "1", None, "r2", "viewer") }

GrantUniverse == DashboardGrants \cup ProjectGrants \cup OtherGrants

(***************************************************************************)
(* class UserAccessControl                                                 *)
(***************************************************************************)
\* Organization.is_feature_available(feature)
is_feature_available(feature) == feature \in available_features

\* OrganizationMembership.objects.get(organization=..., user=self._user)
get_organization_membership ==
    IF \E m \in organization_memberships : m.user = SelfUser
    THEN CHOOSE m \in organization_memberships : m.user = SelfUser
    ELSE NoMembership

\* _organization_membership as a plain property, read from the store each time
_organization_membership_uncached == get_organization_membership

\* @cached_property: the slot is <<>> until the first access fills it
_organization_membership ==
    IF cached_membership = <<>> THEN get_organization_membership
    ELSE cached_membership[1]

rbac_supported == is_feature_available(ROLE_BASED_ACCESS)

\* access_controls_supported taking ROLE_BASED_ACCESS for a third proxy feature
access_controls_supported_any_feature ==
    \/ is_feature_available(PROJECT_BASED_PERMISSIONING)
    \/ is_feature_available(ADVANCED_PERMISSIONS)
    \/ is_feature_available(ROLE_BASED_ACCESS)

access_controls_supported ==
    \/ is_feature_available(PROJECT_BASED_PERMISSIONING)
    \/ is_feature_available(ADVANCED_PERMISSIONS)

\* the admin test with = in place of >=, which leaves owners out
is_org_admin_only(org_membership) == org_membership.level = LevelADMIN

\* org_membership.level >= OrganizationMembership.Level.ADMIN
is_org_admin(org_membership) == org_membership.level >= LevelADMIN

\* role_ids without the rbac_supported test
role_ids_always == role_memberships

role_ids == IF rbac_supported THEN role_memberships ELSE {}

\* _access_controls_for_object without team=self._team in its three Q objects
_access_controls_for_object_any_team(obj) ==
    LET resource == model_to_resource(obj)
        resource_id == Str(obj.id)
    IN  { ac \in access_controls :
            \/ /\ ac.resource = resource
               /\ ac.resource_id = resource_id
               /\ ac.organization_member = None
               /\ ac.role = None
            \/ /\ ac.resource = resource
               /\ ac.resource_id = resource_id
               /\ ac.organization_member = SelfUser
               /\ ac.role = None
            \/ /\ ac.resource = resource
               /\ ac.resource_id = resource_id
               /\ ac.organization_member = None
               /\ ac.role \in role_ids }

_access_controls_for_object(obj) ==
    LET resource == model_to_resource(obj)
        resource_id == Str(obj.id)
    IN  { ac \in access_controls :
            \/ /\ ac.team = SelfTeam
               /\ ac.resource = resource
               /\ ac.resource_id = resource_id
               /\ ac.organization_member = None
               /\ ac.role = None
            \/ /\ ac.team = SelfTeam
               /\ ac.resource = resource
               /\ ac.resource_id = resource_id
               /\ ac.organization_member = SelfUser
               /\ ac.role = None
            \/ /\ ac.team = SelfTeam
               /\ ac.resource = resource
               /\ ac.resource_id = resource_id
               /\ ac.organization_member = None
               /\ ac.role \in role_ids }

\* min() in place of max()
min_access_control(acs, resource) ==
    { ac \in acs :
        \A other \in acs :
            index(ordered_access_levels(resource), other.access_level)
                >= index(ordered_access_levels(resource), ac.access_level) }

\* max(access_controls, key=index of access_level): the rows come back in no
\* stated order, so any row of maximal key may be the first one max() meets
max_access_control(acs, resource) ==
    { ac \in acs :
        \A other \in acs :
            index(ordered_access_levels(resource), other.access_level)
                <= index(ordered_access_levels(resource), ac.access_level) }

\* the values access_control_for_object(obj) may return
access_control_for_object(obj) ==
    LET resource == model_to_resource(obj)
        resource_id == Str(obj.id)
        levels == ordered_access_levels(resource)
        org_membership == _organization_membership
        acs == _access_controls_for_object(obj)
    IN  IF resource = "ValueError" THEN {RetError}
        ELSE IF ~access_controls_supported THEN {RetNone}
        ELSE IF org_membership = NoMembership THEN {RetNone}
        ELSE IF is_org_admin(org_membership)
        THEN {RetAC(AC(None, SelfTeam, resource, resource_id, None, None,
                       levels[Len(levels)]))}
        ELSE IF acs = {}
        THEN {RetAC(AC(None, SelfTeam, resource, resource_id, None, None,
                       default_access_level(resource)))}
        ELSE {RetAC(ac) : ac \in max_access_control(acs, resource)}

\* whether access_control_for_object(obj) reads self._organization_membership
reads_membership(obj) ==
    model_to_resource(obj) # "ValueError" /\ access_controls_supported

\* the values check_access_level_for_object(obj, required_level) may return
check_access_level_for_object(obj, required_level) ==
    { IF r.tag = "ValueError" THEN RetError
      ELSE IF r.tag = "None" THEN RetBool(FALSE)
      ELSE access_level_satisfied(obj, r.access_control.access_level, required_level) :
        r \in access_control_for_object(obj) }

\* the fallback asking admin of obj in place of self._team
check_can_modify_on_obj(obj) ==
    IF obj.created_by = SelfUser THEN {RetBool(TRUE)}
    ELSE check_access_level_for_object(obj, "admin")

\* the values check_can_modify_access_levels_for_object(obj) may return
check_can_modify_access_levels_for_object(obj) ==
    IF obj.created_by = SelfUser THEN {RetBool(TRUE)}
    ELSE check_access_level_for_object(TheTeam, "admin")

(***************************************************************************)
(* Calls on the instance                                                   *)
(***************************************************************************)
Call(op, obj, current_level, required_level, result) ==
    [op |-> op, obj |-> obj, current_level |-> current_level,
     required_level |-> required_level, result |-> result]

Constructed == Call("__init__", TheTeam, None, None, RetNone)

FillCache ==
    cached_membership' = <<_organization_membership>>

AccessControlForObject(obj) ==
    /\ \E r \in access_control_for_object(obj) :
           ret' = Call("access_control_for_object", obj, None, None, r)
    /\ IF reads_membership(obj) THEN FillCache ELSE UNCHANGED cached_membership
    /\ changed' = {}
    /\ UNCHANGED <<store, builder>>

CheckAccessLevelForObject(obj, required_level) ==
    /\ \E r \in check_access_level_for_object(obj, required_level) :
           ret' = Call("check_access_level_for_object", obj, None, required_level, r)
    /\ IF reads_membership(obj) THEN FillCache ELSE UNCHANGED cached_membership
    /\ changed' = {}
    /\ UNCHANGED <<store, builder>>

CheckCanModifyAccessLevelsForObject(obj) ==
    /\ \E r \in check_can_modify_access_levels_for_object(obj) :
           ret' = Call("check_can_modify_access_levels_for_object", obj, None, None, r)
    /\ IF obj.created_by # SelfUser /\ reads_membership(TheTeam)
       THEN FillCache ELSE UNCHANGED cached_membership
    /\ changed' = {}
    /\ UNCHANGED <<store, builder>>

AccessLevelSatisfied(obj, current_level, required_level) ==
    /\ ret' = Call("access_level_satisfied", obj, current_level, required_level,
                   access_level_satisfied(obj, current_level, required_level))
    /\ changed' = {}
    /\ UNCHANGED <<store, cached_membership, builder>>

(***************************************************************************)
(* Writes to the store made by the administrative flows around the         *)
(* instance                                                                *)
(***************************************************************************)
OtherMemberships == {Membership(OtherUser, LevelMEMBER)}

\* SelfUser joins the organization
CreateMembership(level) ==
    /\ \A m \in organization_memberships : m.user # SelfUser
    /\ organization_memberships' =
           organization_memberships \cup {Membership(SelfUser, level)}
    /\ UNCHANGED <<available_features, role_memberships, access_controls,
                   cached_membership, ret, changed, builder>>

\* SelfUser's membership level is changed
UpdateMembership(level) ==
    /\ \E m \in organization_memberships : m.user = SelfUser /\ m.level # level
    /\ organization_memberships' =
           {m \in organization_memberships : m.user # SelfUser}
               \cup {Membership(SelfUser, level)}
    /\ UNCHANGED <<available_features, role_memberships, access_controls,
                   cached_membership, ret, changed, builder>>

\* SelfUser leaves the organization; the rows scoped to the membership go with it
DeleteMembership ==
    /\ \E m \in organization_memberships : m.user = SelfUser
    /\ organization_memberships' =
           {m \in organization_memberships : m.user # SelfUser}
    /\ access_controls' =
           {ac \in access_controls : ac.organization_member # SelfUser}
    /\ changed' = IF access_controls' # access_controls
                  THEN changed \cup {"access_controls"} ELSE changed
    /\ UNCHANGED <<available_features, role_memberships, cached_membership, ret,
                   builder>>

\* a feature is made available to, or withdrawn from, the organization
SetFeature(feature) ==
    /\ available_features' =
           IF feature \in available_features
           THEN available_features \ {feature}
           ELSE available_features \cup {feature}
    /\ changed' = changed \cup {"available_features"}
    /\ UNCHANGED <<organization_memberships, role_memberships, access_controls,
                   cached_membership, ret, builder>>

(***************************************************************************)
(* TrendsActorsQueryBuilder                                                *)
(***************************************************************************)
HoursPerDay == 24

ComparePrevious == "previous"
CompareCurrent == "current"
CompareValues == {None, CompareCurrent, ComparePrevious}

\* a time_frame string: "YYYY-MM-DD" spells hour 0, "YYYY-MM-DDTHH:00:00" the hour
\* (days are counted from an arbitrary day 0; the days before it are negative)
TimeFrame(day, hour) == [tag |-> "str", day |-> day, hour |-> hour]
NoTimeFrame == [tag |-> None, day |-> 0, hour |-> 0]

\* dateutil.parser.isoparse: the datetime a string spells
isoparse(timestr) == timestr.day * HoursPerDay + timestr.hour

\* dateutil.parser.parse with the team's timezone for a string that names none
parse(timestr) == timestr.day * HoursPerDay + timestr.hour

\* datetime.strftime("%Y-%m-%d"): the date of dt, without its time of day
strftime_Ymd(dt) == TimeFrame(dt \div HoursPerDay, 0)

\* QueryDateRange.date_from_delta_mappings(): the keyword arguments of the
\* relativedelta the relative date_from stands for, None when it has none
DeltaMappings(days, hours) == [tag |-> "dict", days |-> days, hours |-> hours]
NoDeltaMappings == [tag |-> None, days |-> 0, hours |-> 0]

relativedelta(delta_mappings) ==
    delta_mappings.days * HoursPerDay + delta_mappings.hours

Intervals == {"hour", "day", "week"}

\* QueryDateRange.interval_relativedelta()
interval_relativedelta(interval) ==
    CASE interval = "hour" -> 1
      [] interval = "day" -> HoursPerDay
      [] interval = "week" -> 7 * HoursPerDay

\* the two timestamp conditions: timestamp >= actors_from, timestamp < actors_to
Conditions(actors_from, actors_to) ==
    [actors_from |-> actors_from, actors_to |-> actors_to]
NoConditions == [actors_from |-> 0, actors_to |-> 0]

DateWhere(tag, self_time_frame, conditions) ==
    [tag |-> tag, time_frame |-> self_time_frame, conditions |-> conditions]

\* what one call does on a builder whose fields are the arguments: how it ends,
\* self.time_frame after it, and the conditions it returns
_date_where_expr(self_time_frame, self_compare_value, self_trends_query) ==
    IF self_time_frame.tag = None
    THEN DateWhere("ValueError", self_time_frame, NoConditions)
    ELSE IF self_compare_value = ComparePrevious
    THEN LET delta_mappings == self_trends_query.delta_mappings
         IN  IF delta_mappings.tag = None
             THEN DateWhere("AssertionError", self_time_frame, NoConditions)
             ELSE LET relative_delta == relativedelta(delta_mappings)
                      parsed_dt == isoparse(self_time_frame)
                      parse_dt_with_relative_delta == parsed_dt - relative_delta
                      new_time_frame == strftime_Ymd(parse_dt_with_relative_delta)
                      actors_from == parse(new_time_frame)
                      actors_to == actors_from
                                     + interval_relativedelta(self_trends_query.interval)
                 IN  DateWhere("ok", new_time_frame, Conditions(actors_from, actors_to))
    ELSE LET actors_from == parse(self_time_frame)
             actors_to == actors_from
                            + interval_relativedelta(self_trends_query.interval)
         IN  DateWhere("ok", self_time_frame, Conditions(actors_from, actors_to))

\* the last call on the builder: the date conditions of the main WHERE clause
\* and of the events_filter handed to Breakdown
Built(op, tag, where, events_filter) ==
    [op |-> op, tag |-> tag, where |-> where, events_filter |-> events_filter]
NotBuilt == Built(None, None, NoConditions, NoConditions)

\* a direct call of _date_where_expr
DateWhereExpr ==
    /\ Len(date_conditions) < MaxCalls
    /\ LET r == _date_where_expr(time_frame, compare_value, trends_query)
       IN  /\ time_frame' = r.time_frame
           /\ date_conditions' = IF r.tag = "ok"
                                 THEN Append(date_conditions, r.conditions)
                                 ELSE date_conditions
           /\ built' = Built("_date_where_expr", r.tag, r.conditions, NoConditions)
    /\ UNCHANGED <<compare_value, trends_query>>
    /\ UNCHANGED <<store, cached_membership, ret, changed>>

\* build_actors_query: _get_events_query takes its where from
\* _events_where_expr(), which calls _date_where_expr and then
\* _breakdown_where_expr, whose Breakdown gets
\* _events_where_expr(with_breakdown_expr=False), which calls _date_where_expr
\* again
BuildActorsQuery ==
    /\ Len(date_conditions) + 2 <= MaxCalls
    /\ LET where == _date_where_expr(time_frame, compare_value, trends_query)
       IN  IF where.tag # "ok"
           THEN /\ time_frame' = where.time_frame
                /\ built' = Built("build_actors_query", where.tag,
                                  NoConditions, NoConditions)
                /\ UNCHANGED date_conditions
           ELSE LET events_filter ==
                        _date_where_expr(where.time_frame, compare_value, trends_query)
                IN  /\ time_frame' = events_filter.time_frame
                    /\ IF events_filter.tag # "ok"
                       THEN /\ built' = Built("build_actors_query", events_filter.tag,
                                              NoConditions, NoConditions)
                            /\ date_conditions' =
                                   Append(date_conditions, where.conditions)
                       ELSE /\ built' = Built("build_actors_query", "ok",
                                              where.conditions,
                                              events_filter.conditions)
                            /\ date_conditions' =
                                   date_conditions
                                       \o <<where.conditions, events_filter.conditions>>
    /\ UNCHANGED <<compare_value, trends_query>>
    /\ UNCHANGED <<store, cached_membership, ret, changed>>

\* no builder: the state of the builder's fields in the specifications of
\* UserAccessControl
NoBuilder ==
    /\ time_frame = NoTimeFrame
    /\ compare_value = None
    /\ trends_query = [delta_mappings |-> NoDeltaMappings, interval |-> "day"]
    /\ date_conditions = <<>>
    /\ built = NotBuilt

(***************************************************************************)
(* Spec: every store within the bounds, then one call on the instance      *)
(***************************************************************************)
\* the subsets of S with at most n elements
RECURSIVE SubsetsUpTo(_, _)
SubsetsUpTo(S, n) ==
    IF n = 0 THEN {{}}
    ELSE LET smaller == SubsetsUpTo(S, n - 1)
         IN  smaller \cup {s \cup {x} : s \in smaller, x \in S}

\* stores with at most maxGrants rows and SelfUser holding one of roleSets;
\* a row scoped to a membership needs the membership
Stores(maxGrants, roleSets) ==
    /\ available_features \in SUBSET Features
    /\ organization_memberships \in
           {OtherMemberships} \cup
           {OtherMemberships \cup {Membership(SelfUser, l)} : l \in MembershipLevels}
    /\ role_memberships \in roleSets
    /\ access_controls \in SubsetsUpTo(GrantUniverse, maxGrants)
    /\ \A ac \in access_controls :
           ac.organization_member # None =>
               \E m \in organization_memberships : m.user = ac.organization_member

Constructor ==
    /\ cached_membership = <<>>
    /\ ret = Constructed
    /\ changed = {}

Init == Stores(MaxGrants, SUBSET Roles) /\ Constructor /\ NoBuilder

\* the levels a caller asks of obj: those of its kind's ordering, and any
\* level when the kind is unknown
RequiredLevels(obj) ==
    IF model_to_resource(obj) = "ValueError" THEN AllLevels
    ELSE {l \in AllLevels : index(ordered_access_levels(model_to_resource(obj)), l) # -1}

\* the first call on the instance just constructed
FirstAccessControlForObject(obj) ==
    /\ ret = Constructed
    /\ AccessControlForObject(obj)

FirstCheckAccessLevelForObject(obj, required_level) ==
    /\ ret = Constructed
    /\ CheckAccessLevelForObject(obj, required_level)

FirstCheckCanModifyAccessLevelsForObject(obj) ==
    /\ ret = Constructed
    /\ CheckCanModifyAccessLevelsForObject(obj)

FirstAccessLevelSatisfied(obj, current_level, required_level) ==
    /\ ret = Constructed
    /\ AccessLevelSatisfied(obj, current_level, required_level)

Next ==
    \/ \E obj \in Objects : FirstAccessControlForObject(obj)
    \/ \E obj \in Objects : \E required_level \in RequiredLevels(obj) :
           FirstCheckAccessLevelForObject(obj, required_level)
    \/ \E obj \in Objects : FirstCheckCanModifyAccessLevelsForObject(obj)

Spec == Init /\ [][Next]_vars

(***************************************************************************)
(* SpecPure: the module-level functions beside the methods, one call       *)
(***************************************************************************)
\* the functions read no AccessControl row: the store holds none
InitPure == Stores(0, {{}}) /\ Constructor /\ NoBuilder

NextPure ==
    \/ \E obj \in Objects, current_level \in AllLevels, required_level \in AllLevels :
           FirstAccessLevelSatisfied(obj, current_level, required_level)
    \/ \E obj \in Objects : FirstAccessControlForObject(obj)
    \/ \E obj \in Objects, required_level \in AllLevels :
           FirstCheckAccessLevelForObject(obj, required_level)

SpecPure == InitPure /\ [][NextPure]_vars

(***************************************************************************)
(* SpecCache: one instance answering access_control_for_object again and   *)
(* again while memberships and features are written                        *)
(***************************************************************************)
InitCache == Stores(MaxCacheGrants, {{}}) /\ Constructor /\ NoBuilder

NextCache ==
    \/ \E obj \in Objects : AccessControlForObject(obj)
    \/ \E level \in MembershipLevels : CreateMembership(level)
    \/ \E level \in MembershipLevels : UpdateMembership(level)
    \/ DeleteMembership
    \/ \E feature \in Features : SetFeature(feature)

SpecCache == InitCache /\ [][NextCache]_vars

(***************************************************************************)
(* SpecTrends: one builder for every time_frame, compare_value, delta and  *)
(* interval within the bounds, then calls on it                            *)
(***************************************************************************)
NoUserAccessControl ==
    /\ available_features = {}
    /\ organization_memberships = {}
    /\ role_memberships = {}
    /\ access_controls = {}
    /\ Constructor

\* the hours of the day a time_frame or a delta is drawn from
Hours == {0, 12}

TimeFrames ==
    {NoTimeFrame} \cup {TimeFrame(day, hour) : day \in 0..MaxDay, hour \in Hours}

TrendsQueries ==
    [delta_mappings :
         {NoDeltaMappings}
             \cup {DeltaMappings(days, hours) : days \in 0..MaxDeltaDays, hours \in Hours},
     interval : Intervals]

InitTrends ==
    /\ NoUserAccessControl
    /\ time_frame \in TimeFrames
    /\ compare_value \in CompareValues
    /\ trends_query \in TrendsQueries
    /\ date_conditions = <<>>
    /\ built = NotBuilt

NextTrends ==
    \/ DateWhereExpr
    \/ BuildActorsQuery

SpecTrends == InitTrends /\ [][NextTrends]_vars

(***************************************************************************)
(* Properties.  In Spec and SpecPure the store is the one the call read.   *)
(***************************************************************************)
Called(op) == ret.op = op
Known(obj) == model_to_resource(obj) # "ValueError"
MemberBased(obj) == model_to_resource(obj) \in {"project", "organization"}
SelfMemberships == {m \in organization_memberships : m.user = SelfUser}
Supported ==
    \/ PROJECT_BASED_PERMISSIONING \in available_features
    \/ ADVANCED_PERMISSIONS \in available_features
OrgAdmin == \E m \in SelfMemberships : m.level >= LevelADMIN
PlainMember == \E m \in SelfMemberships : m.level < LevelADMIN
Granted(level) ==
    /\ ret.result.tag = "AccessControl"
    /\ ret.result.access_control.access_level = level
\* position of a level in its ordering, as the orderings are documented
Rank(level) ==
    CASE level = "none" -> 0
      [] level = "member" -> 1
      [] level = "admin" -> 2
      [] level = "viewer" -> 0
      [] level = "editor" -> 1

\* C1: check_access_level_for_object returns None, not False, whenever no
\* control is resolved for the object: access-control support is disabled for
\* the organization, or the user has no membership in it.
C1_NoControlIsNone ==
    ( /\ Called("check_access_level_for_object")
      /\ Known(ret.obj)
      /\ ~Supported \/ SelfMemberships = {} )
        => ret.result = RetNone

\* C2: with access-control support enabled, an organization admin (membership
\* level at or above ADMIN) is given the last level of the kind's ordering,
\* admin for project and organization and editor otherwise, whatever rows are
\* stored.
C2_AdminGetsTopLevel ==
    ( /\ Called("access_control_for_object")
      /\ Known(ret.obj)
      /\ Supported
      /\ OrgAdmin )
        => Granted(IF MemberBased(ret.obj) THEN "admin" ELSE "editor")

\* an owner resolves dashboard 1 while a stored row grants them only viewer
C2_Witness ==
    /\ Called("access_control_for_object")
    /\ ret.obj = Obj("Dashboard", 1, SelfUser)
    /\ Supported
    /\ Membership(SelfUser, LevelOWNER) \in organization_memberships
    /\ Row(SelfTeam, "dashboard", "1", SelfUser, None, "viewer") \in access_controls
    /\ Granted("editor")

\* C3 as stated: with access-control support disabled, access_control_for_object
\* returns None for every object.
C3_DisabledIsNoneForEveryObject ==
    ( /\ Called("access_control_for_object")
      /\ ~Supported )
        => ret.result = RetNone

\* C3: with access-control support disabled (neither PROJECT_BASED_PERMISSIONING
\* nor ADVANCED_PERMISSIONS available), access_control_for_object returns None
\* for every object whose type maps to a resource kind, whatever the membership
\* level and the stored rows.
C3_DisabledIsNone ==
    ( /\ Called("access_control_for_object")
      /\ Known(ret.obj)
      /\ ~Supported )
        => ret.result = RetNone

\* an organization admin with a stored admin row on the project gets None when
\* only ROLE_BASED_ACCESS is available
C3_Witness ==
    /\ Called("access_control_for_object")
    /\ ret.obj = TheTeam
    /\ available_features = {ROLE_BASED_ACCESS}
    /\ Membership(SelfUser, LevelADMIN) \in organization_memberships
    /\ Row(SelfTeam, "project", "1", SelfUser, None, "admin") \in access_controls
    /\ ret.result = RetNone

\* C4: for a non-admin member with access-control support enabled and at least
\* one matching row, access_control_for_object returns one of the matching
\* rows, and no matching row has a higher level in the kind's ordering.
C4_HighestMatchingRow ==
    ( /\ Called("access_control_for_object")
      /\ Known(ret.obj)
      /\ Supported
      /\ PlainMember
      /\ _access_controls_for_object(ret.obj) # {} )
        => /\ ret.result.tag = "AccessControl"
           /\ ret.result.access_control \in _access_controls_for_object(ret.obj)
           /\ \A ac \in _access_controls_for_object(ret.obj) :
                  Rank(ac.access_level) <= Rank(ret.result.access_control.access_level)

\* matching rows viewer and editor on dashboard 1 resolve to editor
C4_Witness ==
    /\ Called("access_control_for_object")
    /\ ret.obj = Obj("Dashboard", 1, SelfUser)
    /\ Supported
    /\ PlainMember
    /\ Row(SelfTeam, "dashboard", "1", None, None, "viewer") \in access_controls
    /\ Row(SelfTeam, "dashboard", "1", SelfUser, None, "editor") \in access_controls
    /\ Granted("editor")

\* C5: for a non-admin member with access-control support enabled and no
\* matching row, access_control_for_object returns an unsaved row at the kind's
\* default level, member for project and organization and editor otherwise; so
\* requiring admin of the project is refused and requiring editor of any other
\* kind is allowed.
C5_DefaultLevel ==
    ( /\ Known(ret.obj)
      /\ Supported
      /\ PlainMember
      /\ _access_controls_for_object(ret.obj) = {} )
        => /\ Called("access_control_for_object") =>
                  ret.result =
                      RetAC(AC(None, SelfTeam, model_to_resource(ret.obj),
                               Str(ret.obj.id), None, None,
                               IF MemberBased(ret.obj) THEN "member" ELSE "editor"))
           /\ ( /\ Called("check_access_level_for_object")
                /\ model_to_resource(ret.obj) = "project"
                /\ ret.required_level = "admin" )
                  => ret.result = RetBool(FALSE)
           /\ ( /\ Called("check_access_level_for_object")
                /\ ~MemberBased(ret.obj)
                /\ ret.required_level = "editor" )
                  => ret.result = RetBool(TRUE)

\* a plain member asks admin of the project while the only rows are another
\* team's and another user's
C5_Witness ==
    /\ Called("check_access_level_for_object")
    /\ ret.obj = TheTeam
    /\ ret.required_level = "admin"
    /\ Supported
    /\ PlainMember
    /\ access_controls =
           { Row(OtherTeam, "dashboard", "1", None, None, "viewer"),
             Row(SelfTeam, "dashboard", "1", OtherUser, None, "viewer") }
    /\ ret.result = RetBool(FALSE)

\* the documented ordering of obj's kind
DocumentedLevels(obj) ==
    IF MemberBased(obj) THEN {"none", "member", "admin"} ELSE {"viewer", "editor"}

Satisfies(obj, l1, l2) == access_level_satisfied(obj, l1, l2) = RetBool(TRUE)

\* C6: access_level_satisfied(obj, L1, L2) is true iff L1 stands at or after L2
\* in the ordering of obj's kind, [none, member, admin] for project and
\* organization and [viewer, editor] otherwise; over one ordering it is
\* reflexive and transitive.
C6_SatisfiedIsTheOrdering ==
    /\ ( /\ Called("access_level_satisfied")
         /\ Known(ret.obj)
         /\ ret.current_level \in DocumentedLevels(ret.obj)
         /\ ret.required_level \in DocumentedLevels(ret.obj) )
           => /\ ret.result = RetBool(Rank(ret.current_level) >= Rank(ret.required_level))
              /\ ret.current_level = ret.required_level => ret.result = RetBool(TRUE)
    /\ \A obj \in {o \in Objects : Known(o)} :
           /\ ordered_access_levels(model_to_resource(obj)) =
                  IF MemberBased(obj) THEN <<"none", "member", "admin">>
                  ELSE <<"viewer", "editor">>
           /\ \A l1 \in DocumentedLevels(obj) : Satisfies(obj, l1, l1)
           /\ \A l1 \in DocumentedLevels(obj), l2 \in DocumentedLevels(obj),
                 l3 \in DocumentedLevels(obj) :
                  (Satisfies(obj, l1, l2) /\ Satisfies(obj, l2, l3))
                      => Satisfies(obj, l1, l3)

\* admin satisfies member on the project, and member does not satisfy admin
C6_Witness ==
    /\ Called("access_level_satisfied")
    /\ ret.obj = TheTeam
    /\ ret.current_level = "admin"
    /\ ret.required_level = "member"
    /\ ret.result = RetBool(TRUE)
    /\ access_level_satisfied(TheTeam, "member", "admin") = RetBool(FALSE)

\* the matching rows that are not scoped to a role
RowsWithoutRoles(obj) ==
    { ac \in access_controls :
        /\ ac.team = SelfTeam
        /\ ac.resource = model_to_resource(obj)
        /\ ac.resource_id = Str(obj.id)
        /\ ac.role = None
        /\ ac.organization_member \in {None, SelfUser} }

\* C7: while ROLE_BASED_ACCESS is not available, rows scoped to a role never
\* count, even for roles the user holds: for a non-admin member the result is
\* the one the store without its role-scoped rows gives, the highest of the
\* other matching rows or, when there is none, the default.
C7_RolesIgnoredWithoutRbac ==
    ( /\ Called("access_control_for_object")
      /\ Known(ret.obj)
      /\ Supported
      /\ PlainMember
      /\ ROLE_BASED_ACCESS \notin available_features )
        => IF RowsWithoutRoles(ret.obj) = {}
           THEN ret.result =
                    RetAC(AC(None, SelfTeam, model_to_resource(ret.obj),
                             Str(ret.obj.id), None, None,
                             IF MemberBased(ret.obj) THEN "member" ELSE "editor"))
           ELSE /\ ret.result.tag = "AccessControl"
                /\ ret.result.access_control \in RowsWithoutRoles(ret.obj)
                /\ \A ac \in RowsWithoutRoles(ret.obj) :
                       Rank(ac.access_level)
                           <= Rank(ret.result.access_control.access_level)

\* the user holds r1, r1 is granted viewer on dashboard 1, and without
\* ROLE_BASED_ACCESS the default editor is resolved
C7_Witness ==
    /\ Called("access_control_for_object")
    /\ ret.obj = Obj("Dashboard", 1, SelfUser)
    /\ Supported
    /\ ROLE_BASED_ACCESS \notin available_features
    /\ PlainMember
    /\ "r1" \in role_memberships
    /\ access_controls = {Row(SelfTeam, "dashboard", "1", None, "r1", "viewer")}
    /\ ret.result.access_control.pk = None
    /\ Granted("editor")

\* the user's level on the team is admin: by membership, or by a matching row
TeamAdmin ==
    /\ Supported
    /\ \/ OrgAdmin
       \/ /\ PlainMember
          /\ \E ac \in _access_controls_for_object(TheTeam) : ac.access_level = "admin"

\* C8: check_can_modify_access_levels_for_object(obj) is true for the creator
\* of obj in every state; for anybody else it is true exactly when the user's
\* level on the instance's team is admin, whatever their level on obj.
C8_CreatorOrTeamAdmin ==
    Called("check_can_modify_access_levels_for_object")
        => ret.result = RetBool(ret.obj.created_by = SelfUser \/ TeamAdmin)

\* a plain member who did not create dashboard 2 holds the highest level on it
\* and still may not modify its access levels
C8_Witness ==
    /\ Called("check_can_modify_access_levels_for_object")
    /\ ret.obj = Obj("Dashboard", 2, OtherUser)
    /\ Supported
    /\ PlainMember
    /\ access_control_for_object(ret.obj) =
           {RetAC(AC(None, SelfTeam, "dashboard", "2", None, None, "editor"))}
    /\ ~TeamAdmin
    /\ ret.result = RetBool(FALSE)

\* C9: an object whose lower-cased type name is neither team nor featureflag
\* and is not registered makes model_to_resource fail, and
\* access_control_for_object, check_access_level_for_object and
\* access_level_satisfied pass the failure on; team maps to project,
\* featureflag to feature_flag and a registered name to itself.
C9_UnknownKindRaises ==
    /\ ( /\ ret.op \in {"access_control_for_object", "check_access_level_for_object",
                        "access_level_satisfied"}
         /\ Lower(ret.obj.cls) \notin {"team", "featureflag"} \cup API_SCOPE_OBJECTS )
           => ret.result = RetError
    /\ \A obj \in Objects :
           model_to_resource(obj) =
               CASE Lower(obj.cls) = "team" -> "project"
                 [] Lower(obj.cls) = "featureflag" -> "feature_flag"
                 [] Lower(obj.cls) \in API_SCOPE_OBJECTS -> Lower(obj.cls)
                 [] OTHER -> "ValueError"

\* a Role object is checked by an organization admin and the call raises
C9_Witness ==
    /\ Called("check_access_level_for_object")
    /\ ret.obj = Obj("Role", 1, SelfUser)
    /\ Supported
    /\ OrgAdmin
    /\ ret.result = RetError

\* two results that tell the caller the same: both None, both raised, or rows
\* of the same level
SameAnswer(r1, r2) ==
    /\ r1.tag = r2.tag
    /\ r1.access_control.access_level = r2.access_control.access_level

ScopedRows(obj, heldRoles) ==
    { ac \in access_controls :
        /\ ac.team = SelfTeam
        /\ ac.resource = model_to_resource(obj)
        /\ ac.resource_id = Str(obj.id)
        /\ \/ ac.organization_member = None /\ ac.role = None
           \/ ac.organization_member = SelfUser /\ ac.role = None
           \/ ac.organization_member = None /\ ac.role \in heldRoles }

\* the call resolved exactly what the rows in rows give a non-admin member:
\* the default when there is none, else one of them and none of them higher
ResolvedFrom(rows) ==
    IF rows = {}
    THEN ret.result =
             RetAC(AC(None, SelfTeam, model_to_resource(ret.obj), Str(ret.obj.id),
                      None, None,
                      IF MemberBased(ret.obj) THEN "member" ELSE "editor"))
    ELSE /\ ret.result.tag = "AccessControl"
         /\ ret.result.access_control \in rows
         /\ \A ac \in rows :
                Rank(ac.access_level) <= Rank(ret.result.access_control.access_level)

\* the effective set is the rows in rows, and nothing else decides the level
EffectiveSetIs(rows(_)) ==
    /\ \A obj \in {o \in Objects : Known(o)} :
           _access_controls_for_object(obj) = rows(obj)
    /\ ( /\ Called("access_control_for_object")
         /\ Known(ret.obj)
         /\ Supported
         /\ PlainMember )
           => ResolvedFrom(rows(ret.obj))

RowsOfHeldRoles(obj) == ScopedRows(obj, role_memberships)

RowsOfHeldRolesUnderRbac(obj) ==
    ScopedRows(obj, IF ROLE_BASED_ACCESS \in available_features
                    THEN role_memberships ELSE {})

\* C11 as stated: the effective set for (user, object) is exactly the stored
\* rows of the instance's team, the object's kind and str(obj.id) that are
\* team-wide, scoped to the user's membership, or scoped to a role the user
\* holds; no other row is in it or changes the resolved level.
C11_EffectiveSetOfHeldRoles == EffectiveSetIs(RowsOfHeldRoles)

\* C11: the same, with the rows scoped to a role the user holds counted only
\* while ROLE_BASED_ACCESS is available to the organization.
C11_EffectiveSet == EffectiveSetIs(RowsOfHeldRolesUnderRbac)

\* a member holding r1 under ROLE_BASED_ACCESS resolves dashboard 1 to r1's
\* viewer row while another user's viewer row on it is stored too
C11_Witness ==
    /\ Called("access_control_for_object")
    /\ ret.obj = Obj("Dashboard", 1, SelfUser)
    /\ Supported
    /\ ROLE_BASED_ACCESS \in available_features
    /\ PlainMember
    /\ role_memberships = {"r1"}
    /\ access_controls =
           { Row(SelfTeam, "dashboard", "1", None, "r1", "viewer"),
             Row(SelfTeam, "dashboard", "1", OtherUser, None, "viewer") }
    /\ _access_controls_for_object(ret.obj) =
           {Row(SelfTeam, "dashboard", "1", None, "r1", "viewer")}
    /\ ret.result = RetAC(Row(SelfTeam, "dashboard", "1", None, "r1", "viewer"))

\* C12: _date_where_expr is idempotent on one builder: every call, for every
\* compare_value, leaves self.time_frame as it was and yields the same
\* [actors_from, actors_to) window as every call before it, so the date
\* conditions of the main WHERE clause of one build_actors_query and those of
\* the events_filter it passes to Breakdown are the same.
C12_DateWhereExprIdempotent ==
    [][ /\ time_frame' = time_frame
        /\ \A i, j \in DOMAIN date_conditions' :
               date_conditions'[i] = date_conditions'[j]
        /\ (built'.op = "build_actors_query" /\ built'.tag = "ok")
               => built'.where = built'.events_filter ]_vars

====
